---- MODULE Spec2Model ----
(***************************************************************************)
(* CollabConnect front end: the unified input box (ResumeUploader), its    *)
(* intent detection, the recommend request life cycle of App, and the      *)
(* embedding memoization of the Profile Store.                             *)
(*                                                                         *)
(* Text is a sequence of one-character strings, so that substring tests,   *)
(* trimming, splitting and case mapping are computed as the code does.     *)
(***************************************************************************)
EXTENDS Integers, Sequences, FiniteSets, TLC

\* ------------------------------------------------------------------------
\* Bounds of the model
\* ------------------------------------------------------------------------
\* Longest typed text enumerated exhaustively over Alphabet.
MaxLen == 3
\* Number of recommend requests one behaviour may send.
MaxRequests == 2
\* Number of concurrent embeddingOf callers.
MaxCallers == 3
\* Number of match-details requests one behaviour may send.
MaxDetailRequests == 2
\* Number of closeModal timeouts that may be pending at once.
MaxTimers == 2
\* Number of keydown listeners that may be registered at once.
MaxListeners == 2
\* Number of profiles in the store of the backend.
NumProfiles == 6
\* Attempt cap of the embedding provider.
MaxEmbedAttempts == 2

\* ------------------------------------------------------------------------
\* JavaScript string primitives
\* ------------------------------------------------------------------------
UpperLetters ==
  <<"A","B","C","D","E","F","G","H","I","J","K","L","M",
    "N","O","P","Q","R","S","T","U","V","W","X","Y","Z">>

LowerLetters ==
  <<"a","b","c","d","e","f","g","h","i","j","k","l","m",
    "n","o","p","q","r","s","t","u","v","w","x","y","z">>

IsUpper(c) == \E i \in 1..26 : UpperLetters[i] = c

IsLower(c) == \E i \in 1..26 : LowerLetters[i] = c

IsLetter(c) == IsUpper(c) \/ IsLower(c)

\* \s of a JavaScript regular expression, and the characters trim() strips.
IsSpace(c) == c \in {" ", "\t", "\n", "\r", "\f"}

toLowerCaseChar(c) ==
  IF IsUpper(c) THEN LowerLetters[CHOOSE i \in 1..26 : UpperLetters[i] = c] ELSE c

toUpperCaseChar(c) ==
  IF IsLower(c) THEN UpperLetters[CHOOSE i \in 1..26 : LowerLetters[i] = c] ELSE c

toLowerCase(s) == [i \in 1..Len(s) |-> toLowerCaseChar(s[i])]

\* String.prototype.includes
includes(s, sub) ==
  \E i \in 0..(Len(s) - Len(sub)) : SubSeq(s, i + 1, i + Len(sub)) = sub

\* String.prototype.trim
trim(s) ==
  LET keep == {i \in 1..Len(s) : ~IsSpace(s[i])}
  IN  IF keep = {} THEN <<>>
      ELSE SubSeq(s, CHOOSE i \in keep : \A j \in keep : i <= j,
                     CHOOSE i \in keep : \A j \in keep : i >= j)

\* Index of the first non-space character after position j, 0 when none.
NextWordStart(s, j) ==
  LET later == {i \in (j + 1)..Len(s) : ~IsSpace(s[i])}
  IN  IF later = {} THEN 0 ELSE CHOOSE i \in later : \A k \in later : i <= k

\* Last index of the run of non-space characters that starts at i.
WordEnd(s, i) ==
  CHOOSE j \in i..Len(s) :
    /\ \A k \in i..j : ~IsSpace(s[k])
    /\ (j = Len(s) \/ IsSpace(s[j + 1]))

RECURSIVE wordsFrom(_, _)
wordsFrom(s, i) ==
  IF i = 0 THEN <<>>
  ELSE LET j == WordEnd(s, i)
       IN  <<SubSeq(s, i, j)>> \o wordsFrom(s, NextWordStart(s, j))

\* s.split(/\s+/) for a trimmed s: "" splits to [""], otherwise the maximal
\* runs of non-space characters in order.
splitWhitespace(s) ==
  IF s = <<>> THEN << <<>> >> ELSE wordsFrom(s, NextWordStart(s, 0))

\* ------------------------------------------------------------------------
\* Intent detection of handleSubmit
\* ------------------------------------------------------------------------
searchKeywords ==
  { <<"f","i","n","d">>, <<"s","e","a","r","c","h">>, <<"s","h","o","w">>,
    <<"w","h","o"," ","k","n","o","w","s">>, <<"w","h","o"," ","h","a","s">>,
    <<"p","e","o","p","l","e"," ","s","k","i","l","l","e","d"," ","i","n">>,
    <<"l","o","o","k","i","n","g"," ","f","o","r">>, <<"e","x","p","e","r","t"," ","i","n">> }

technicalKeywords ==
  { <<"p","y","t","h","o","n">>, <<"j","a","v","a">>,
    <<"j","a","v","a","s","c","r","i","p","t">>, <<"t","y","p","e","s","c","r","i","p","t">>,
    <<"g","o">>, <<"r","u","s","t">>, <<"c","+","+">>, <<"c","#">>, <<"r","u","b","y">>,
    <<"p","h","p">>, <<"s","w","i","f","t">>, <<"k","o","t","l","i","n">>,
    <<"r","e","a","c","t">>, <<"v","u","e">>, <<"a","n","g","u","l","a","r">>,
    <<"s","v","e","l","t","e">>, <<"n","e","x","t",".","j","s">>,
    <<"n","e","x","t","j","s">>, <<"h","t","m","l">>, <<"c","s","s">>,
    <<"t","a","i","l","w","i","n","d">>, <<"n","o","d","e">>,
    <<"e","x","p","r","e","s","s">>, <<"d","j","a","n","g","o">>, <<"f","l","a","s","k">>,
    <<"s","p","r","i","n","g">>, <<"r","a","i","l","s">>, <<"s","q","l">>,
    <<"n","o","s","q","l">>, <<"p","o","s","t","g","r","e","s","q","l">>,
    <<"p","o","s","t","g","r","e","s">>, <<"m","y","s","q","l">>,
    <<"m","o","n","g","o","d","b">>, <<"r","e","d","i","s">>,
    <<"e","l","a","s","t","i","c","s","e","a","r","c","h">>, <<"a","w","s">>,
    <<"g","c","p">>, <<"a","z","u","r","e">>, <<"d","o","c","k","e","r">>,
    <<"k","u","b","e","r","n","e","t","e","s">>, <<"k","8","s">>,
    <<"j","e","n","k","i","n","s">>, <<"c","i","/","c","d">>,
    <<"t","e","r","r","a","f","o","r","m">>,
    <<"m","a","c","h","i","n","e"," ","l","e","a","r","n","i","n","g">>,
    <<"d","a","t","a"," ","s","c","i","e","n","c","e">>, <<"a","i">>,
    <<"d","e","e","p"," ","l","e","a","r","n","i","n","g">>,
    <<"t","e","n","s","o","r","f","l","o","w">>, <<"p","y","t","o","r","c","h">>,
    <<"p","a","n","d","a","s">>, <<"s","p","a","r","k">>, <<"a","p","i">>,
    <<"r","e","s","t">>, <<"g","r","a","p","h","q","l">>,
    <<"m","i","c","r","o","s","e","r","v","i","c","e","s">>, <<"b","a","c","k","e","n","d">>,
    <<"f","r","o","n","t","e","n","d">>, <<"f","u","l","l","s","t","a","c","k">>,
    <<"d","e","v","o","p","s">> }

NameMaxLen == 50

NameMaxWords == 3

isKeywordSearch(lowerText) ==
  \E keyword \in searchKeywords : includes(lowerText, keyword)

\* Variant: a technical term must occur in the text; a text that is only a
\* fragment of a term is not matched.
isTechnicalQueryContainsOnly(lowerText) ==
  \E keyword \in technicalKeywords : includes(lowerText, keyword)

isTechnicalQuery(lowerText) ==
  \E keyword \in technicalKeywords :
    includes(lowerText, keyword) \/ includes(keyword, lowerText)

isShort(combinedText) == Len(combinedText) < NameMaxLen

isFewWords(words) == Len(words) >= 1 /\ Len(words) <= NameMaxWords

\* /^[a-zA-Z\s'-]+$/
isNameLike(combinedText) ==
  /\ combinedText # <<>>
  /\ \A i \in 1..Len(combinedText) :
       \/ IsLetter(combinedText[i])
       \/ IsSpace(combinedText[i])
       \/ combinedText[i] \in {"'", "-"}

\* words.some(word => word.length > 0 && word[0] === word[0].toUpperCase())
hasCapitalizedWord(words) ==
  \E k \in 1..Len(words) :
    Len(words[k]) > 0 /\ words[k][1] = toUpperCaseChar(words[k][1])

\* Variant: the name heuristics are consulted before the trigger phrases and
\* the technical terms.
detectModeNameFirst(combinedText, hasFile) ==
  LET lowerText == toLowerCase(combinedText)
      words     == splitWhitespace(trim(combinedText))
  IN  IF hasFile THEN "resume"
      ELSE IF /\ isShort(combinedText)
              /\ isFewWords(words)
              /\ isNameLike(combinedText)
              /\ hasCapitalizedWord(words)
           THEN "name_search"
      ELSE "search"

\* The mode handleSubmit resolves for the combined text; hasFile is
\* whether a file is attached (selectedFile is not null).
detectMode(combinedText, hasFile) ==
  LET lowerText == toLowerCase(combinedText)
      words     == splitWhitespace(trim(combinedText))
  IN  IF hasFile THEN "resume"
      ELSE IF isKeywordSearch(lowerText) THEN "search"
      ELSE IF isTechnicalQuery(lowerText) THEN "search"
      ELSE IF /\ isShort(combinedText)
              /\ isFewWords(words)
              /\ isNameLike(combinedText)
              /\ hasCapitalizedWord(words)
           THEN "name_search"
      ELSE "search"

\* ------------------------------------------------------------------------
\* Inputs
\* ------------------------------------------------------------------------
TxtFindPython == <<"F","i","n","d"," ","P","y","t","h","o","n"," ","e","x","p","e","r","t","s">>
TxtJoshuaHart == <<"J","o","s","h","u","a"," ","H","a","r","t">>
TxtReact == <<"r","e","a","c","t">>
TxtResume == <<"E","x","p","e","r","i","e","n","c","e","d"," ","b","a","c","k","e","n","d"," ","e","n","g","i","n","e","e","r"," ","w","i","t","h"," ","6"," ","y","e","a","r","s"," ","b","u","i","l","d","i","n","g"," ","d","i","s","t","r","i","b","u","t","e","d"," ","p","a","y","m","e","n","t"," ","s","y","s","t","e","m","s"," ","i","n"," ","J","a","v","a"," ","a","n","d"," ","K","u","b","e","r","n","e","t","e","s",".",".",".">>
TxtShowZed == <<"S","h","o","w"," ","Z","e","d">>
TxtLowerName == <<"j","o","s","h","u","a"," ","h","a","r","t">>
TxtTis == <<"'","t","i","s">>
TxtFourWords == <<"M","a","r","y"," ","A","n","n"," ","Z","e","d"," ","H","a","r","t">>
TxtPlain == <<"I"," ","l","e","d"," ","a"," ","t","e","a","m"," ","o","f"," ","t","w","e","l","v","e"," ","p","e","o","p","l","e"," ","b","u","i","l","d","i","n","g"," ","p","a","y","m","e","n","t"," ","f","l","o","w","s",".">>
TxtBlank == <<" "," ">>
TxtPadded == <<" ","J","o","s","h","u","a"," ","H","a","r","t"," ">>
TxtWhoKnows == <<"W","h","o"," ","k","n","o","w","s"," ","R","e","a","c","t","?">>

\* A text of n copies of the character c.
Repeat(c, n) == [i \in 1..n |-> c]

\* Name-shaped texts just below and at the length limit of the name rule.
TxtLong49 == <<"Z">> \o Repeat("z", 48)

TxtLong50 == <<"Z">> \o Repeat("z", 49)

SampleTexts ==
  { TxtFindPython, TxtJoshuaHart, TxtReact, TxtResume, TxtShowZed, TxtLowerName,
    TxtTis, TxtFourWords, TxtPlain, TxtBlank, TxtPadded, TxtWhoKnows,
    TxtLong49, TxtLong50 }

Alphabet == {"a", "A", "i", "z", "Z", " ", "'", "-", "1"}

\* Every text over Alphabet of length at most MaxLen.
ShortTexts == UNION {[1..n -> Alphabet] : n \in 0..MaxLen}

\* Texts the classifier is exercised on.
ClassifierTexts == ShortTexts \cup SampleTexts

\* Texts a user types in the request life cycle.
TypedTexts == {TxtBlank, TxtFindPython, TxtJoshuaHart}

NoFile == [name |-> <<>>, type |-> "null"]

FilePdf == [name |-> <<"c","v",".","p","d","f">>, type |-> "application/pdf"]

FilePng == [name |-> <<"p",".","p","n","g">>, type |-> "image/png"]

FileTxt == [name |-> <<"n",".","t","x","t">>, type |-> "text/plain"]

Files == {FilePdf, FilePng, FileTxt}

validTypes ==
  { "application/pdf", "application/msword",
    "application/vnd.openxmlformats-officedocument.wordprocessingml.document",
    "image/png", "image/jpeg", "image/jpg" }

\* Types whose text is extracted asynchronously (pdf.js, mammoth).
ExtractedTypes ==
  { "application/pdf", "application/msword",
    "application/vnd.openxmlformats-officedocument.wordprocessingml.document" }

\* Texts the extraction of a document may yield.
FileTexts == {TxtJoshuaHart}

ErrNone == "null"

ErrEmpty == "Please enter text or upload a file."

ErrFileType == "Unsupported file type. Please upload PDF, DOC, DOCX, PNG, or JPG."

ErrProcess == "Failed to process input. Please try again."

ErrFetch == "Failed to get recommendations from the server. Is the backend running?"

\* An Employee of a response: whether resumeMatch is present, and its
\* collaborationSuggestions.
Emp(id, resumeMatch, suggestions) ==
  [id |-> id, resumeMatch |-> resumeMatch, collaborationSuggestions |-> suggestions]

Idea == <<"Pair on overlapping project work">>

NoIdeas == <<>>

\* Recommendation lists the server may answer with.
ResultLists ==
  { <<Emp("emp001", TRUE, Idea), Emp("emp002", FALSE, NoIdeas)>>,
    <<Emp("emp002", FALSE, NoIdeas)>> }

\* ------------------------------------------------------------------------
\* State
\* ------------------------------------------------------------------------
VARIABLES
  inputText,        \* ResumeUploader: text of the textarea
  selectedFile,     \* ResumeUploader: attached file or NoFile
  isLoading,        \* ResumeUploader: a submit is being processed
  uploaderError,    \* ResumeUploader: error message or ErrNone
  pending,          \* handleSubmit calls suspended at the file extraction
  recommendations,  \* App: displayed recommendation list
  shownFor,         \* id of the request whose response set recommendations
  shownQuery,       \* history: text of the request whose response set recommendations
  isFetching,       \* App: loading indicator
  error,            \* App: error message or ErrNone
  currentQuery,     \* App: query stored for lazy loading
  inflight,         \* recommend requests sent and not yet answered
  nextId,           \* number of recommend requests sent so far
  cache,            \* Profile Store: memoized embedding per profile
  computing,        \* Profile Store: profiles with a provider call in flight
  callers,          \* embeddingOf callers: state of each
  providerCalls,    \* provider calls issued per profile
  selectedEmployee, \* App: employee shown in the modal, NoEmployee for null
  isModalOpen,      \* App: the modal is open
  clearTimers,      \* pending setTimeout callbacks of closeModal
  escListeners,     \* keydown listeners registered by EmployeeProfileModal
  detailsInflight,  \* match-details requests sent and not yet answered
  nextDetailId,     \* number of match-details requests sent so far
  selectedAtResponse, \* history: id selected when the latest match-details response was applied
  detailsSent,      \* history: every match-details request sent so far
  lastClick,        \* history: target of the click, if the latest event of the modal was one
  profileScores,    \* backend: similarity score of each profile for the query
  ranked,           \* backend: output of the ranker
  reqState,         \* backend: state of the recommend request
  reqMode,          \* backend: mode supplied with the request, or "omitted"
  embedAttempts,    \* backend: embedding provider attempts made for the query
  explained,        \* backend: explanation outcome per ranked position
  reqResult,        \* backend: recommendations of the response
  reqError          \* backend: error of the response

uploaderVars == <<inputText, selectedFile, isLoading, uploaderError, pending>>

appVars ==
  <<recommendations, shownFor, shownQuery, isFetching, error, currentQuery, inflight, nextId>>

cacheVars == <<cache, computing, callers, providerCalls>>

modalVars ==
  <<selectedEmployee, isModalOpen, clearTimers, escListeners, detailsInflight, nextDetailId,
    selectedAtResponse, detailsSent, lastClick>>

backendVars ==
  <<profileScores, ranked, reqState, reqMode, embedAttempts, explained, reqResult, reqError>>

vars == <<uploaderVars, appVars, cacheVars, modalVars, backendVars>>

\* ------------------------------------------------------------------------
\* ResumeUploader.handleSubmit and App.handleTextExtracted
\* ------------------------------------------------------------------------
AttachedFilePrefix == <<"[","A","t","t","a","c","h","e","d"," ","F","i","l","e"," ","C","o","n","t","e","n","t"," ","(">>

AttachedFileSuffix == <<")","]",":","\n">>

AttachedImagePrefix == <<"[","A","t","t","a","c","h","e","d"," ","I","m","a","g","e",":"," ">>

AttachedImageSuffix == <<"]">>

\* fileText of an image: `[Attached Image: ${selectedFile.name}]`
imageFileText(file) == AttachedImagePrefix \o file.name \o AttachedImageSuffix

\* combinedText as handleSubmit builds it from the trimmed input and the file.
combineText(text, file, fileText) ==
  LET typed == trim(text)
  IN  IF file = NoFile THEN typed
      ELSE (IF typed # <<>> THEN typed \o <<"\n", "\n">> ELSE <<>>)
           \o AttachedFilePrefix \o file.name \o AttachedFileSuffix \o fileText

\* Variant: the resume branch sends the text alone, without the mode.
buildPayloadResumeWithoutMode(data) ==
  IF data.mode = "search" \/ data.mode = "name_search"
  THEN [mode |-> data.mode, searchQuery |-> data.text]
  ELSE [resumeText |-> data.text]

\* Variant: the text is sent as searchQuery whatever the mode.
buildPayloadAlwaysSearchQuery(data) ==
  [mode |-> data.mode, searchQuery |-> data.text]

\* The request body handleTextExtracted builds.
buildPayload(data) ==
  IF data.mode = "search" \/ data.mode = "name_search"
  THEN [mode |-> data.mode, searchQuery |-> data.text]
  ELSE [mode |-> data.mode, resumeText |-> data.text]

\* handleTextExtracted up to the point where it awaits the fetch.
handleTextExtracted(data) ==
  /\ isFetching' = TRUE
  /\ error' = ErrNone
  /\ currentQuery' = data.text
  /\ inflight' = inflight \cup {[id |-> nextId + 1, payload |-> buildPayload(data)]}
  /\ nextId' = nextId + 1
  /\ UNCHANGED <<recommendations, shownFor, shownQuery>>

\* Variant: the intent detection is not told of the attached file.
finishSubmitIgnoringFile(text, file, fileText) ==
  LET combinedText == combineText(text, file, fileText)
      mode         == detectMode(combinedText, FALSE)
  IN  /\ handleTextExtracted([text |-> combinedText, mode |-> mode])
      /\ inputText' = <<>>
      /\ selectedFile' = NoFile
      /\ isLoading' = FALSE

\* handleSubmit from the intent detection to its end.
finishSubmit(text, file, fileText) ==
  LET combinedText == combineText(text, file, fileText)
      mode         == detectMode(combinedText, file # NoFile)
  IN  /\ handleTextExtracted([text |-> combinedText, mode |-> mode])
      /\ inputText' = <<>>
      /\ selectedFile' = NoFile
      /\ isLoading' = FALSE

\* The textarea and the submit button are disabled while isLoading.
CanSubmit == ~isLoading

\* onChange of the textarea.
SetInputText(t) ==
  /\ ~isLoading
  /\ t # inputText
  /\ inputText' = t
  /\ UNCHANGED <<selectedFile, isLoading, uploaderError, pending, appVars, cacheVars, modalVars, backendVars>>

HandleFileSelect(f) ==
  /\ IF f.type \in validTypes
     THEN selectedFile' = f /\ uploaderError' = ErrNone
     ELSE selectedFile' = selectedFile /\ uploaderError' = ErrFileType
  /\ UNCHANGED <<inputText, isLoading, pending, appVars, cacheVars, modalVars, backendVars>>

RemoveFile ==
  /\ selectedFile # NoFile
  /\ selectedFile' = NoFile
  /\ UNCHANGED <<inputText, isLoading, uploaderError, pending, appVars, cacheVars, modalVars, backendVars>>

\* Variant: the blank submit is rejected only after the loading state is set.
HandleSubmitEmptySetsLoading ==
  /\ CanSubmit
  /\ trim(inputText) = <<>> /\ selectedFile = NoFile
  /\ uploaderError' = ErrEmpty
  /\ isLoading' = TRUE
  /\ UNCHANGED <<inputText, selectedFile, pending, appVars, cacheVars, modalVars, backendVars>>

\* handleSubmit with blank text and no file: rejected.
HandleSubmitEmpty ==
  /\ CanSubmit
  /\ trim(inputText) = <<>> /\ selectedFile = NoFile
  /\ uploaderError' = ErrEmpty
  /\ UNCHANGED <<inputText, selectedFile, isLoading, pending, appVars, cacheVars, modalVars, backendVars>>

\* handleSubmit with nothing to await: typed text only, or an image.
HandleSubmitDirect ==
  /\ CanSubmit
  /\ nextId < MaxRequests
  /\ trim(inputText) # <<>> \/ selectedFile # NoFile
  /\ selectedFile.type \notin ExtractedTypes
  /\ finishSubmit(inputText, selectedFile,
                  IF selectedFile = NoFile THEN <<>> ELSE imageFileText(selectedFile))
  /\ uploaderError' = ErrNone
  /\ UNCHANGED <<pending, cacheVars, modalVars, backendVars>>

\* handleSubmit with a document: suspends at the text extraction.
HandleSubmitExtract ==
  /\ CanSubmit
  /\ nextId < MaxRequests
  /\ selectedFile.type \in ExtractedTypes
  /\ isLoading' = TRUE
  /\ uploaderError' = ErrNone
  /\ pending' = pending \cup {[text |-> inputText, file |-> selectedFile]}
  /\ UNCHANGED <<inputText, selectedFile, appVars, cacheVars, modalVars, backendVars>>

\* The extraction resolves with fileText and handleSubmit runs to its end.
ExtractionDone(p, fileText) ==
  /\ p \in pending
  /\ pending' = pending \ {p}
  /\ finishSubmit(p.text, p.file, fileText)
  /\ UNCHANGED <<uploaderError, cacheVars, modalVars, backendVars>>

\* Variant: the catch block also clears the inputs.
ExtractionFailedClearsInputs(p) ==
  /\ p \in pending
  /\ pending' = pending \ {p}
  /\ uploaderError' = ErrProcess
  /\ isLoading' = FALSE
  /\ inputText' = <<>>
  /\ selectedFile' = NoFile
  /\ UNCHANGED <<appVars, cacheVars, modalVars, backendVars>>

\* The extraction throws: the catch block of handleSubmit.
ExtractionFailed(p) ==
  /\ p \in pending
  /\ pending' = pending \ {p}
  /\ uploaderError' = ErrProcess
  /\ isLoading' = FALSE
  /\ UNCHANGED <<inputText, selectedFile, appVars, cacheVars, modalVars, backendVars>>

\* The text a recommend request carries.
queryText(r) ==
  IF "searchQuery" \in DOMAIN r.payload THEN r.payload.searchQuery
  ELSE r.payload.resumeText

\* Variant: a response leaves the fetching indicator as it is.
RecommendOkKeepsFetching(r, list) ==
  /\ r \in inflight
  /\ inflight' = inflight \ {r}
  /\ recommendations' = list
  /\ shownFor' = r.id
  /\ shownQuery' = queryText(r)
  /\ UNCHANGED <<isFetching, error, currentQuery, nextId>>
  /\ UNCHANGED <<uploaderVars, cacheVars, modalVars, backendVars>>

\* The recommend response is OK: handleTextExtracted after the fetch.
RecommendOk(r, list) ==
  /\ r \in inflight
  /\ inflight' = inflight \ {r}
  /\ recommendations' = list
  /\ shownFor' = r.id
  /\ shownQuery' = queryText(r)
  /\ isFetching' = FALSE
  /\ UNCHANGED <<error, currentQuery, nextId, uploaderVars, cacheVars, modalVars, backendVars>>

\* Variant: a failed request clears the list.
RecommendFailedClearsList(r) ==
  /\ r \in inflight
  /\ inflight' = inflight \ {r}
  /\ error' = ErrFetch
  /\ isFetching' = FALSE
  /\ recommendations' = <<>>
  /\ UNCHANGED <<shownFor, shownQuery, currentQuery, nextId>>
  /\ UNCHANGED <<uploaderVars, cacheVars, modalVars, backendVars>>

\* The fetch rejects or the response is not OK: the catch block.
RecommendFailed(r) ==
  /\ r \in inflight
  /\ inflight' = inflight \ {r}
  /\ error' = ErrFetch
  /\ isFetching' = FALSE
  /\ UNCHANGED <<recommendations, shownFor, shownQuery, currentQuery, nextId>>
  /\ UNCHANGED <<uploaderVars, cacheVars, modalVars, backendVars>>

\* ------------------------------------------------------------------------
\* Profile Store: memoized embeddingOf
\* ------------------------------------------------------------------------
Profiles == {"emp001", "emp002"}

Vectors == {"v1", "v2"}

NoVector == "none"

Callers == 1..MaxCallers

\* Provider calls one behaviour may issue per profile (failed calls are retried
\* by later callers).
MaxProviderCalls == 2

Idle == [pc |-> "idle", profile |-> "none", call |-> 0, result |-> NoVector]

\* Provider calls in flight for profile p.
callsFor(p) == {k \in computing : k.profile = p}

\* Variant: only the cache is consulted, not the computations in flight.
mustComputeCacheOnly(p) == cache[p] = NoVector

\* Whether embeddingOf must issue a provider call for p: nothing is cached and
\* no computation for p is in flight.
mustCompute(p) == cache[p] = NoVector /\ callsFor(p) = {}

\* embeddingOf(p) called by c: a hit returns the cached vector, a miss joins
\* the computation in flight or starts the only one.
EmbeddingOf(c, p) ==
  /\ callers[c].pc = "idle"
  /\ IF cache[p] # NoVector
     THEN /\ callers' = [callers EXCEPT ![c] =
                           [pc |-> "done", profile |-> p, call |-> 0, result |-> cache[p]]]
          /\ UNCHANGED <<computing, providerCalls>>
     ELSE IF mustCompute(p)
     THEN /\ providerCalls[p] < MaxProviderCalls
          /\ LET n == providerCalls[p] + 1
             IN  /\ providerCalls' = [providerCalls EXCEPT ![p] = n]
                 /\ computing' = computing \cup {[profile |-> p, call |-> n]}
                 /\ callers' = [callers EXCEPT ![c] =
                                  [pc |-> "waiting", profile |-> p, call |-> n,
                                   result |-> NoVector]]
     ELSE /\ LET k == CHOOSE k \in callsFor(p) : TRUE
             IN  callers' = [callers EXCEPT ![c] =
                               [pc |-> "waiting", profile |-> p, call |-> k.call,
                                result |-> NoVector]]
          /\ UNCHANGED <<computing, providerCalls>>
  /\ UNCHANGED <<cache, uploaderVars, appVars, modalVars, backendVars>>

\* The provider answers call k with vector v: it is stored and every caller
\* awaiting that call receives it.
ProviderReturns(k, v) ==
  /\ k \in computing
  /\ computing' = computing \ {k}
  /\ cache' = [cache EXCEPT ![k.profile] = v]
  /\ callers' = [c \in Callers |->
                   IF callers[c].pc = "waiting" /\ callers[c].profile = k.profile
                      /\ callers[c].call = k.call
                   THEN [callers[c] EXCEPT !.pc = "done", !.result = v]
                   ELSE callers[c]]
  /\ UNCHANGED <<providerCalls, uploaderVars, appVars, modalVars, backendVars>>

\* The provider call k fails after its retries: ProviderError for its awaiters.
ProviderFails(k) ==
  /\ k \in computing
  /\ computing' = computing \ {k}
  /\ callers' = [c \in Callers |->
                   IF callers[c].pc = "waiting" /\ callers[c].profile = k.profile
                      /\ callers[c].call = k.call
                   THEN [callers[c] EXCEPT !.pc = "failed"]
                   ELSE callers[c]]
  /\ UNCHANGED <<cache, providerCalls, uploaderVars, appVars, modalVars, backendVars>>

\* A caller that has its answer goes on to its next call.
CallerReturns(c) ==
  /\ callers[c].pc \in {"done", "failed"}
  /\ callers' = [callers EXCEPT ![c] = Idle]
  /\ UNCHANGED <<cache, computing, providerCalls, uploaderVars, appVars, modalVars, backendVars>>

\* ------------------------------------------------------------------------
\* App: Read More, the profile modal and the match-details request
\* ------------------------------------------------------------------------
NoEmployee == Emp("null", FALSE, NoIdeas)

\* Bodies a match-details response may carry.
DetailResults ==
  { [resumeMatch |-> TRUE, collaborationSuggestions |-> Idea],
    [resumeMatch |-> TRUE, collaborationSuggestions |-> NoIdeas] }

\* Whether EmployeeProfileModal is mounted, and whether it shows the modal.
Mounted(employee) == employee # NoEmployee

ModalShown == Mounted(selectedEmployee) /\ isModalOpen

\* The keydown listeners left after App renders the modal with (employee1,
\* open1) where the render before had (employee0, open0). The effect that adds
\* the listener comes after `if (!isOpen) return null`: a render of the closed
\* modal calls no hook. React leaves the effect life cycle of such a component
\* open, so where the clean-up of an effect skipped by the last render is due,
\* it may or may not run.
listenersAfter(employee0, open0, employee1, open1, n) ==
  LET hooks0 == Mounted(employee0) /\ open0
      hooks1 == Mounted(employee1) /\ open1
  IN  IF hooks1 THEN
        IF hooks0 THEN {n}
        ELSE IF Mounted(employee0) THEN {n, n + 1}
        ELSE {n + 1}
      ELSE IF Mounted(employee1) THEN {n}
      ELSE IF hooks0 THEN {n - 1}
      ELSE IF Mounted(employee0) THEN {n - 1, n}
      ELSE {n}

\* Variant: handleReadMore fetches whenever a query is stored.
needsDetailsAlways(employee) == currentQuery # <<>>

\* Whether handleReadMore fetches the match details of employee.
needsDetails(employee) ==
  /\ currentQuery # <<>>
  /\ ~employee.resumeMatch \/ Len(employee.collaborationSuggestions) = 0

\* Read More on the i-th card.
HandleReadMore(i) ==
  LET employee == recommendations[i]
  IN  /\ ~isFetching
      /\ i \in 1..Len(recommendations)
      /\ selectedEmployee' = employee
      /\ isModalOpen' = TRUE
      /\ escListeners' \in
           listenersAfter(selectedEmployee, isModalOpen, employee, TRUE, escListeners)
      /\ escListeners' <= MaxListeners
      /\ IF needsDetails(employee)
         THEN LET request == [id |-> nextDetailId + 1, targetText |-> currentQuery,
                              employeeId |-> employee.id]
              IN  /\ nextDetailId < MaxDetailRequests
                  /\ nextDetailId' = nextDetailId + 1
                  /\ detailsInflight' = detailsInflight \cup {request}
                  /\ detailsSent' = detailsSent \cup {request}
         ELSE UNCHANGED <<detailsInflight, nextDetailId, detailsSent>>
      /\ UNCHANGED selectedAtResponse
      /\ lastClick' = "none"
      /\ UNCHANGED <<clearTimers, uploaderVars, appVars, cacheVars, backendVars>>

\* An employee with the details of a match-details response merged in.
withDetails(employee, details) ==
  [employee EXCEPT !.resumeMatch = details.resumeMatch,
                   !.collaborationSuggestions = details.collaborationSuggestions]

\* Variant: the details are merged into whichever employee is selected.
mergeIntoSelectedAlways(prev, employeeId, details) ==
  IF Mounted(prev) THEN withDetails(prev, details) ELSE prev

\* The updater of setSelectedEmployee: the details are merged if the selected
\* employee is the requested one.
mergeIntoSelected(prev, employeeId, details) ==
  IF Mounted(prev) /\ prev.id = employeeId
  THEN withDetails(prev, details)
  ELSE prev

\* Variant: the details are merged into every recommendation of the list.
mergeIntoListEvery(prev, employeeId, details) ==
  [i \in 1..Len(prev) |-> withDetails(prev[i], details)]

\* The updater of setRecommendations: the details are merged into the
\* recommendations of the requested employee.
mergeIntoList(prev, employeeId, details) ==
  [i \in 1..Len(prev) |->
     IF prev[i].id = employeeId THEN withDetails(prev[i], details) ELSE prev[i]]

\* The match-details response is OK: it is merged into the selected employee
\* if that is still the requested one, and into the list.
DetailsOk(d, details) ==
  /\ d \in detailsInflight
  /\ detailsInflight' = detailsInflight \ {d}
  /\ selectedEmployee' = mergeIntoSelected(selectedEmployee, d.employeeId, details)
  /\ recommendations' = mergeIntoList(recommendations, d.employeeId, details)
  /\ selectedAtResponse' = selectedEmployee.id
  /\ UNCHANGED <<isModalOpen, clearTimers, escListeners, nextDetailId>>
  /\ UNCHANGED <<shownFor, shownQuery, isFetching, error, currentQuery, inflight, nextId>>
  /\ UNCHANGED <<uploaderVars, cacheVars, backendVars>>
  /\ lastClick' = "none"
  /\ UNCHANGED detailsSent

\* Variant: a failed match-details request closes the modal.
DetailsFailedClosesModal(d) ==
  /\ d \in detailsInflight
  /\ detailsInflight' = detailsInflight \ {d}
  /\ isModalOpen' = FALSE
  /\ lastClick' = "none"
  /\ UNCHANGED <<selectedEmployee, clearTimers, escListeners, nextDetailId>>
  /\ UNCHANGED <<selectedAtResponse, detailsSent>>
  /\ UNCHANGED <<uploaderVars, appVars, cacheVars, backendVars>>

\* The match-details fetch rejects or the response is not OK.
DetailsFailed(d) ==
  /\ d \in detailsInflight
  /\ detailsInflight' = detailsInflight \ {d}
  /\ UNCHANGED <<selectedEmployee, isModalOpen, clearTimers, escListeners, nextDetailId>>
  /\ UNCHANGED <<uploaderVars, appVars, cacheVars, backendVars>>
  /\ lastClick' = "none"
  /\ UNCHANGED detailsSent
  /\ UNCHANGED selectedAtResponse

\* closeModal invoked k times by one event.
closeModalTimes(k) ==
  IF k = 0
  THEN UNCHANGED <<isModalOpen, clearTimers, escListeners>>
  ELSE /\ isModalOpen' = FALSE
       /\ clearTimers + k <= MaxTimers
       /\ clearTimers' = clearTimers + k
       /\ escListeners' \in
            listenersAfter(selectedEmployee, isModalOpen, selectedEmployee, FALSE,
                           escListeners)

\* The callback closeModal scheduled 300 ms earlier runs.
ClearSelected ==
  /\ clearTimers > 0
  /\ clearTimers' = clearTimers - 1
  /\ selectedEmployee' = NoEmployee
  /\ escListeners' \in
       listenersAfter(selectedEmployee, isModalOpen, NoEmployee, isModalOpen, escListeners)
  /\ UNCHANGED <<isModalOpen, detailsInflight, nextDetailId>>
  /\ UNCHANGED <<uploaderVars, appVars, cacheVars, backendVars>>
  /\ lastClick' = "none"
  /\ UNCHANGED detailsSent
  /\ UNCHANGED selectedAtResponse

\* An Escape keydown: every registered listener calls onClose.
EscapeKey ==
  /\ closeModalTimes(escListeners)
  /\ UNCHANGED <<selectedEmployee, detailsInflight, nextDetailId>>
  /\ UNCHANGED <<uploaderVars, appVars, cacheVars, backendVars>>
  /\ lastClick' = "none"
  /\ UNCHANGED detailsSent
  /\ UNCHANGED selectedAtResponse

ClickTargets ==
  {"backdrop", "panel", "closeIcon", "closeButton", "messageButton", "connectButton"}

\* The elements a click on target reaches, innermost first.
clickPath(target) ==
  IF target = "backdrop" THEN <<"backdrop">>
  ELSE IF target = "panel" THEN <<"panel", "backdrop">>
  ELSE <<target, "panel", "backdrop">>

\* Variant: the content panel has no click handler.
onClickOfPanelWithoutHandler(element) ==
  IF element \in {"backdrop", "closeIcon", "closeButton"} THEN "onClose"
  ELSE "none"

\* The onClick of an element of the modal.
onClickOf(element) ==
  IF element \in {"backdrop", "closeIcon", "closeButton"} THEN "onClose"
  ELSE IF element = "panel" THEN "stopPropagation"
  ELSE "none"

\* How often onClose is called while a click bubbles along path.
RECURSIVE onCloseCalls(_)
onCloseCalls(path) ==
  IF path = <<>> THEN 0
  ELSE IF onClickOf(Head(path)) = "stopPropagation" THEN 0
  ELSE (IF onClickOf(Head(path)) = "onClose" THEN 1 ELSE 0) + onCloseCalls(Tail(path))

\* A click on an element of the shown modal.
Click(target) ==
  /\ ModalShown
  /\ closeModalTimes(onCloseCalls(clickPath(target)))
  /\ UNCHANGED <<selectedEmployee, detailsInflight, nextDetailId>>
  /\ UNCHANGED <<uploaderVars, appVars, cacheVars, backendVars>>
  /\ lastClick' = target
  /\ UNCHANGED detailsSent
  /\ UNCHANGED selectedAtResponse

InitModal ==
  /\ selectedEmployee = NoEmployee
  /\ isModalOpen = FALSE
  /\ clearTimers = 0
  /\ escListeners = 0
  /\ detailsInflight = {}
  /\ nextDetailId = 0
  /\ lastClick = "none"
  /\ detailsSent = {}
  /\ selectedAtResponse = "none"

\* ------------------------------------------------------------------------
\* Backend: rankers, Match Explainer and Recommendation Orchestrator
\* ------------------------------------------------------------------------
\* Profiles of the store, named by their position in identifier order.
RankProfiles == 1..NumProfiles

\* Score levels: 0 stands for score 0.0, 1 for score 1.0.
Scores == {0, 1}

TopK == 5

Modes == {"resume", "keyword_search", "name_search"}

\* Variant: equal scores are ordered by descending identifier.
ranksBeforeTieDescending(scores, a, b) ==
  scores[a] > scores[b] \/ (scores[a] = scores[b] /\ a > b)

\* Profile a is ranked before profile b: higher score first, equal scores by
\* ascending identifier.
ranksBefore(scores, a, b) ==
  scores[a] > scores[b] \/ (scores[a] = scores[b] /\ a < b)

RECURSIVE sortProfiles(_, _)
sortProfiles(scores, S) ==
  IF S = {} THEN <<>>
  ELSE LET best == CHOOSE a \in S : \A b \in S \ {a} : ranksBefore(scores, a, b)
       IN  <<best>> \o sortProfiles(scores, S \ {best})

\* rank: the first TopK of the candidates in rank order, with their scores.
rank(scores, candidates) ==
  LET sorted == sortProfiles(scores, candidates)
      n      == IF Len(sorted) < TopK THEN Len(sorted) ELSE TopK
  IN  [i \in 1..n |-> [id |-> sorted[i], score |-> scores[sorted[i]]]]

\* Candidates of a mode: every profile for the similarity ranker; the keyword
\* and the name matcher exclude the profiles without a match (score 0).
candidatesOf(mode, scores) ==
  IF mode = "resume" THEN RankProfiles
  ELSE {p \in RankProfiles : scores[p] > 0}

\* Structural overlap of the Match Explainer: the skills shared by the query
\* and the candidate.
QuerySkills == {"python", "react"}

skillsOf(p) == IF p % 2 = 1 THEN <<"python", "sql">> ELSE <<"go">>

sharedSkills(p) == SelectSeq(skillsOf(p), LAMBDA s : s \in QuerySkills)

Pending == [via |-> "pending", reasonSummary |-> <<>>, collaborationSuggestions |-> <<>>]

\* The templated explanation built from the overlap facts.
templateFor(p) ==
  [via |-> "template",
   reasonSummary |-> <<"Shared skills:">> \o sharedSkills(p),
   collaborationSuggestions |-> <<"Consider pairing on overlapping project work">>]

\* Outcomes of the generative call of one candidate, after its retries.
GenOutcomes ==
  { [kind |-> "output", reasonSummary |-> <<"You both know Python">>,
     collaborationSuggestions |-> <<"Pair on the API", "Review each other">>],
    [kind |-> "output", reasonSummary |-> <<>>,
     collaborationSuggestions |-> <<"Pair on the API", "Review each other">>],
    [kind |-> "output", reasonSummary |-> <<"You both know Python">>,
     collaborationSuggestions |-> <<>>],
    [kind |-> "error", reasonSummary |-> <<>>, collaborationSuggestions |-> <<>>],
    [kind |-> "timeout", reasonSummary |-> <<>>, collaborationSuggestions |-> <<>>] }

\* Variant: whatever the generative call outputs is used.
usableAnyOutput(outcome) == outcome.kind = "output"

\* Whether the outcome of the generative call can be used as it is: a
\* summary and 2 to 3 suggestions.
usable(outcome) ==
  /\ outcome.kind = "output"
  /\ outcome.reasonSummary # <<>>
  /\ Len(outcome.collaborationSuggestions) \in 2..3

\* explain: the narrative of the generative call, or the template.
explain(p, outcome) ==
  IF usable(outcome)
  THEN [via |-> "generated", reasonSummary |-> outcome.reasonSummary,
        collaborationSuggestions |-> outcome.collaborationSuggestions]
  ELSE templateFor(p)

\* Variant: a candidate whose explanation fell back to the template is left
\* out of the response.
assembleGeneratedOnly(rankedList, explanations) ==
  LET keep == SelectSeq([i \in 1..Len(rankedList) |-> i],
                        LAMBDA i : explanations[i].via = "generated")
  IN  [k \in 1..Len(keep) |->
         [id |-> rankedList[keep[k]].id, matchScore |-> rankedList[keep[k]].score,
          reasonSummary |-> explanations[keep[k]].reasonSummary,
          collaborationSuggestions |-> explanations[keep[k]].collaborationSuggestions]]

\* The MatchResult list of the response, in rank order.
assemble(rankedList, explanations) ==
  [i \in 1..Len(rankedList) |->
     [id |-> rankedList[i].id, matchScore |-> rankedList[i].score,
      reasonSummary |-> explanations[i].reasonSummary,
      collaborationSuggestions |-> explanations[i].collaborationSuggestions]]

\* Variant: when the embedding provider has failed for good, the request goes
\* on with an empty ranking.
afterEmbedFailureDegrade(n) == IF n < MaxEmbedAttempts THEN "Classified" ELSE "Ranked"

\* The request state after the n-th failed attempt of the embedding provider.
afterEmbedFailure(n) == IF n < MaxEmbedAttempts THEN "Classified" ELSE "Failed"

\* Received -> Classified: the supplied mode, or the classifier's.
Classify ==
  /\ reqState = "Received"
  /\ reqState' = "Classified"
  /\ reqMode' \in (IF reqMode = "omitted" THEN Modes ELSE {reqMode})
  /\ UNCHANGED <<profileScores, ranked, embedAttempts, explained, reqResult, reqError>>
  /\ UNCHANGED <<uploaderVars, appVars, cacheVars, modalVars>>

\* An attempt to embed the resume text fails.
EmbedFails ==
  /\ reqState = "Classified" /\ reqMode = "resume"
  /\ embedAttempts < MaxEmbedAttempts
  /\ embedAttempts' = embedAttempts + 1
  /\ reqState' = afterEmbedFailure(embedAttempts + 1)
  /\ reqError' = IF reqState' = "Failed" THEN "ProviderError" ELSE reqError
  /\ UNCHANGED <<profileScores, ranked, reqMode, explained, reqResult>>
  /\ UNCHANGED <<uploaderVars, appVars, cacheVars, modalVars>>

\* Classified -> Ranked: the ranker of the mode (for resume, an attempt to
\* embed the text has succeeded).
Rank ==
  /\ reqState = "Classified"
  /\ reqMode = "resume" => embedAttempts < MaxEmbedAttempts
  /\ reqState' = "Ranked"
  /\ ranked' = rank(profileScores, candidatesOf(reqMode, profileScores))
  /\ explained' = [i \in 1..Len(ranked') |-> Pending]
  /\ UNCHANGED <<profileScores, reqMode, embedAttempts, reqResult, reqError>>
  /\ UNCHANGED <<uploaderVars, appVars, cacheVars, modalVars>>

\* The explanation of the i-th ranked candidate completes.
Explain(i, outcome) ==
  /\ reqState = "Ranked"
  /\ i \in 1..Len(explained)
  /\ explained[i] = Pending
  /\ explained' = [explained EXCEPT ![i] = explain(ranked[i].id, outcome)]
  /\ UNCHANGED <<profileScores, ranked, reqState, reqMode, embedAttempts, reqResult, reqError>>
  /\ UNCHANGED <<uploaderVars, appVars, cacheVars, modalVars>>

\* Variant: the response is returned as soon as the explanations are in.
JoinAndReturn ==
  /\ reqState = "Ranked"
  /\ \A i \in 1..Len(explained) : explained[i] # Pending
  /\ reqState' = "Returned"
  /\ reqResult' = assemble(ranked, explained)
  /\ UNCHANGED <<profileScores, ranked, reqMode, embedAttempts, explained, reqError>>
  /\ UNCHANGED <<uploaderVars, appVars, cacheVars, modalVars>>

\* Ranked -> Explained: every explanation has completed.
Join ==
  /\ reqState = "Ranked"
  /\ \A i \in 1..Len(explained) : explained[i] # Pending
  /\ reqState' = "Explained"
  /\ UNCHANGED <<profileScores, ranked, reqMode, embedAttempts, explained, reqResult, reqError>>
  /\ UNCHANGED <<uploaderVars, appVars, cacheVars, modalVars>>

\* Explained -> Returned: the response is assembled.
Return ==
  /\ reqState = "Explained"
  /\ reqState' = "Returned"
  /\ reqResult' = assemble(ranked, explained)
  /\ UNCHANGED <<profileScores, ranked, reqMode, embedAttempts, explained, reqError>>
  /\ UNCHANGED <<uploaderVars, appVars, cacheVars, modalVars>>

InitBackend ==
  /\ profileScores = [p \in RankProfiles |-> 0]
  /\ ranked = <<>>
  /\ reqState = "Received"
  /\ reqMode = "omitted"
  /\ embedAttempts = 0
  /\ explained = <<>>
  /\ reqResult = <<>>
  /\ reqError = "none"

\* ------------------------------------------------------------------------
\* Specifications
\* ------------------------------------------------------------------------
InitUploader ==
  /\ inputText = <<>>
  /\ selectedFile = NoFile
  /\ isLoading = FALSE
  /\ uploaderError = ErrNone
  /\ pending = {}

InitApp ==
  /\ recommendations = <<>>
  /\ shownFor = 0
  /\ shownQuery = <<>>
  /\ isFetching = FALSE
  /\ error = ErrNone
  /\ currentQuery = <<>>
  /\ inflight = {}
  /\ nextId = 0

InitCache ==
  /\ cache = [p \in Profiles |-> NoVector]
  /\ computing = {}
  /\ callers = [c \in Callers |-> Idle]
  /\ providerCalls = [p \in Profiles |-> 0]

Init == InitUploader /\ InitApp /\ InitCache /\ InitModal /\ InitBackend

Next ==
  \/ \E t \in TypedTexts : SetInputText(t)
  \/ \E f \in Files : HandleFileSelect(f)
  \/ RemoveFile
  \/ HandleSubmitEmpty
  \/ HandleSubmitDirect
  \/ HandleSubmitExtract
  \/ \E p \in pending, fileText \in FileTexts : ExtractionDone(p, fileText)
  \/ \E p \in pending : ExtractionFailed(p)
  \/ \E r \in inflight, list \in ResultLists : RecommendOk(r, list)
  \/ \E r \in inflight : RecommendFailed(r)

\* The input box and the request life cycle.
Spec == Init /\ [][Next]_vars

\* The intent detection on every text of ClassifierTexts: the text is in the
\* textarea, no file is attached, and the user submits.
InitClassify ==
  /\ inputText \in ClassifierTexts
  /\ selectedFile = NoFile
  /\ isLoading = FALSE
  /\ uploaderError = ErrNone
  /\ pending = {}
  /\ InitApp
  /\ InitCache
  /\ InitModal
  /\ InitBackend

NextClassify ==
  \/ HandleSubmitEmpty
  \/ HandleSubmitDirect

SpecClassify == InitClassify /\ [][NextClassify]_vars

\* Concurrent embeddingOf callers on the Profile Store.
NextCache ==
  \/ \E c \in Callers, p \in Profiles : EmbeddingOf(c, p)
  \/ \E k \in computing, v \in Vectors : ProviderReturns(k, v)
  \/ \E k \in computing : ProviderFails(k)
  \/ \E c \in Callers : CallerReturns(c)

SpecCache == Init /\ [][NextCache]_vars

\* Read More and the profile modal, from the moment the response to a first
\* typed query is displayed.
InitDetails ==
  /\ InitUploader /\ InitCache /\ InitModal /\ InitBackend
  /\ recommendations \in ResultLists
  /\ shownFor = 1
  /\ shownQuery = TxtFindPython
  /\ isFetching = FALSE
  /\ error = ErrNone
  /\ currentQuery = TxtFindPython
  /\ inflight = {}
  /\ nextId = 1

NextDetails ==
  \/ \E i \in 1..Len(recommendations) : HandleReadMore(i)
  \/ \E d \in detailsInflight, details \in DetailResults : DetailsOk(d, details)
  \/ \E d \in detailsInflight : DetailsFailed(d)
  \/ ClearSelected
  \/ EscapeKey
  \/ \E target \in ClickTargets : Click(target)

SpecDetails == InitDetails /\ [][NextDetails]_vars

\* Typed queries, their recommendations and the enrichment of the displayed
\* cards: a query is typed and submitted and a card is opened; the modal
\* does not take the keyboard away from the input box and the cards.
QueryTexts == TypedTexts \ {TxtBlank}

NextEnrich ==
  \/ \E t \in QueryTexts : SetInputText(t)
  \/ HandleSubmitDirect
  \/ \E r \in inflight, list \in ResultLists : RecommendOk(r, list)
  \/ \E r \in inflight : RecommendFailed(r)
  \/ \E i \in 1..Len(recommendations) : HandleReadMore(i)
  \/ \E d \in detailsInflight, details \in DetailResults : DetailsOk(d, details)
  \/ \E d \in detailsInflight : DetailsFailed(d)

SpecEnrich == Init /\ [][NextEnrich]_vars

\* One recommend request in the backend, for every assignment of scores to
\* the profiles and every supplied or omitted mode.
InitRequest ==
  /\ InitUploader /\ InitApp /\ InitCache /\ InitModal
  /\ profileScores \in [RankProfiles -> Scores]
  /\ ranked = <<>>
  /\ reqState = "Received"
  /\ reqMode \in Modes \cup {"omitted"}
  /\ embedAttempts = 0
  /\ explained = <<>>
  /\ reqResult = <<>>
  /\ reqError = "none"

NextBackend ==
  \/ Classify
  \/ EmbedFails
  \/ Rank
  \/ \E i \in 1..Len(explained), outcome \in GenOutcomes : Explain(i, outcome)
  \/ Join
  \/ Return

SpecBackend == InitRequest /\ [][NextBackend]_vars

\* Every step of the backend is eventually taken: its processing is
\* sequential and its remote calls time out.
SpecBackendFair == SpecBackend /\ WF_vars(NextBackend)

\* ------------------------------------------------------------------------
\* Properties of the intent detection (SpecClassify)
\* ------------------------------------------------------------------------
TriggerPhrases ==
  { <<"f","i","n","d">>, <<"s","e","a","r","c","h">>, <<"s","h","o","w">>,
    <<"w","h","o"," ","k","n","o","w","s">>, <<"w","h","o"," ","h","a","s">>,
    <<"l","o","o","k","i","n","g"," ","f","o","r">>,
    <<"e","x","p","e","r","t"," ","i","n">>,
    <<"p","e","o","p","l","e"," ","s","k","i","l","l","e","d"," ","i","n">> }

HasTrigger(text) == \E ph \in TriggerPhrases : includes(toLowerCase(text), ph)

HasTechnicalTerm(text) ==
  \E term \in technicalKeywords :
    \/ includes(toLowerCase(text), term)
    \/ includes(term, toLowerCase(text))

\* The name shape as the specification words it: a word counts as capitalised
\* only when its first character is an uppercase letter.
StartsUppercase(word) == Len(word) > 0 /\ IsUpper(word[1])

NameShaped(text) ==
  /\ Len(text) < 50
  /\ Len(splitWhitespace(text)) \in 1..3
  /\ \A i \in 1..Len(text) : IsLetter(text[i]) \/ IsSpace(text[i]) \/ text[i] \in {"'", "-"}
  /\ \E k \in 1..Len(splitWhitespace(text)) : StartsUppercase(splitWhitespace(text)[k])

\* C1: a typed text (no file) that contains a search-trigger phrase, compared
\* case-insensitively, is sent in the keyword-search mode "search", also when
\* it contains technical terms or has the shape of a name.
C1_TriggerPhraseIsSearch ==
  \A r \in inflight : HasTrigger(queryText(r)) => r.payload.mode = "search"

\* C1 witness: "Show Zed", a trigger phrase in a name-shaped text, was
\* submitted and is in flight as a keyword search.
C1_Witness ==
  \E r \in inflight :
    /\ queryText(r) = TxtShowZed
    /\ NameShaped(queryText(r))
    /\ r.payload.mode = "search"

\* C2: a typed text (no file) without trigger phrase that contains a technical
\* term, or is a fragment of one, is sent in the keyword-search mode "search",
\* also when it satisfies every name heuristic.
C2_TechnicalTermIsSearch ==
  \A r \in inflight :
    (~HasTrigger(queryText(r)) /\ HasTechnicalTerm(queryText(r)))
      => r.payload.mode = "search"

\* C2 witness: "A", a capitalised one-word text that is a fragment of "java",
\* was submitted and is in flight as a keyword search.
C2_Witness ==
  \E r \in inflight :
    /\ queryText(r) = <<"A">>
    /\ NameShaped(queryText(r))
    /\ ~includes(toLowerCase(queryText(r)), <<"j","a","v","a">>)
    /\ r.payload.mode = "search"

\* C3 (as claimed): a typed text that matches no trigger phrase and no
\* technical term is sent as name_search exactly when it is shorter than 50
\* characters, has 1 to 3 words, consists of letters, spaces, apostrophes and
\* hyphens, and has a word starting with an uppercase letter.
C3_NameSearchIffNameShaped ==
  \A r \in inflight :
    (~HasTrigger(queryText(r)) /\ ~HasTechnicalTerm(queryText(r)))
      => (r.payload.mode = "name_search" <=> NameShaped(queryText(r)))

\* C4 (as claimed): a typed text with no trigger phrase, in no containment
\* relation with a technical term and failing the name heuristics is sent in
\* the resume mode.
C4_FallbackIsResume ==
  \A r \in inflight :
    (/\ ~HasTrigger(queryText(r))
     /\ ~HasTechnicalTerm(queryText(r))
     /\ r.payload.mode # "name_search")
      => r.payload.mode = "resume"

\* C5 (as claimed): the long-form text "Experienced backend engineer with 6
\* years building distributed payment systems in Java and Kubernetes..." is
\* sent in the resume mode.
C5_LongFormTextIsResume ==
  \A r \in inflight : queryText(r) = TxtResume => r.payload.mode = "resume"

\* Texts that differ from text only in the case of their letters: all of them
\* for a short text, the all-lowercase one otherwise.
CaseVariants(text) ==
  IF Len(text) <= MaxLen
  THEN {u \in [1..Len(text) -> Alphabet \cup {toLowerCaseChar(c) : c \in Alphabet}] :
          toLowerCase(u) = toLowerCase(text)}
  ELSE {toLowerCase(text)}

\* C6 (as claimed): two typed texts that differ only in the case of their
\* letters resolve the same mode.
C6_CaseInsensitive ==
  \A r \in inflight :
    \A u \in CaseVariants(queryText(r)) :
      trim(u) # <<>> => detectMode(trim(u), FALSE) = r.payload.mode

\* ------------------------------------------------------------------------
\* Properties of the recommend request (Spec)
\* ------------------------------------------------------------------------
\* C7 (as claimed): every recommend request carries a mode, one of resume,
\* keyword_search and name_search.
C7_ModeNamesAsClaimed ==
  \A r \in inflight :
    /\ "mode" \in DOMAIN r.payload
    /\ r.payload.mode \in {"resume", "keyword_search", "name_search"}

\* C7 (amended): every recommend request carries a mode, one of resume, search
\* and name_search (keyword search is sent as "search"), and the intent
\* detection resolves one of the three for every non-blank text that can be
\* submitted.
C7_ModeIsOneOfThree ==
  /\ \A r \in inflight :
       /\ "mode" \in DOMAIN r.payload
       /\ r.payload.mode \in {"resume", "search", "name_search"}
  /\ trim(inputText) # <<>>
       => detectMode(combineText(inputText, selectedFile, <<>>), selectedFile # NoFile)
            \in {"resume", "search", "name_search"}

\* C7 witness: a resume request and a name-search request are in flight
\* together.
C7_Witness ==
  \E r1, r2 \in inflight :
    r1.payload.mode = "resume" /\ r2.payload.mode = "name_search"

\* C8: a recommend request populates exactly one text field, searchQuery for
\* the modes search and name_search and resumeText for the mode resume, and
\* the field of the request sent last holds the text submitted with it.
C8_ExactlyOneTextField ==
  \A r \in inflight :
    /\ r.payload.mode \in {"search", "name_search"}
         => DOMAIN r.payload = {"mode", "searchQuery"}
    /\ r.payload.mode = "resume"
         => DOMAIN r.payload = {"mode", "resumeText"}
    /\ r.id = nextId => queryText(r) = currentQuery

\* C8 witness: a resume request carrying the typed text and the file content
\* as resumeText and a search request carrying searchQuery are in flight.
C8_Witness ==
  \E r1, r2 \in inflight :
    /\ r1.payload.mode = "resume"
    /\ DOMAIN r1.payload = {"mode", "resumeText"}
    /\ r1.payload.resumeText = combineText(TxtFindPython, FilePdf, TxtJoshuaHart)
    /\ r2.payload.mode = "search"
    /\ r2.payload.searchQuery = TxtFindPython

\* C9 (as claimed): once every request has completed without error, the
\* displayed recommendations are those of the newest query, never those of a
\* request that a newer query superseded.
C9_NewestQueryDisplayed ==
  (inflight = {} /\ nextId > 0 /\ error = ErrNone) => shownFor = nextId

\* ------------------------------------------------------------------------
\* Properties of the embedding cache (SpecCache)
\* ------------------------------------------------------------------------
\* Single flight, in every state: at most one provider call per profile is in
\* flight and none once the vector is cached, every waiting caller awaits the
\* call in flight, and every answered caller holds the cached vector.
SingleFlightState ==
  /\ \A p \in Profiles :
       /\ Cardinality(callsFor(p)) <= 1
       /\ cache[p] # NoVector => callsFor(p) = {}
  /\ \A c \in Callers :
       /\ callers[c].pc = "waiting"
            => [profile |-> callers[c].profile, call |-> callers[c].call] \in computing
       /\ callers[c].pc = "done" => callers[c].result = cache[callers[c].profile]

\* Single flight, in every step: no provider call is issued for a profile
\* whose vector is cached, and a cached vector is never replaced.
SingleFlightStep ==
  \A p \in Profiles :
    cache[p] # NoVector
      => providerCalls'[p] = providerCalls[p] /\ cache'[p] = cache[p]

InRankOrder(ids, scores) ==
  \A i, j \in 1..Len(ids) :
    i < j => \/ scores[i] > scores[j]
             \/ scores[i] = scores[j] /\ ids[i] < ids[j]

\* C11: the output of the ranker, and the recommendations of the response,
\* have at most 5 entries, are sorted by descending score, and order profiles
\* of equal score by ascending identifier.
C11_RankedTopFiveInOrder ==
  /\ Len(ranked) <= 5
  /\ \A i \in 1..Len(ranked) : ranked[i].score = profileScores[ranked[i].id]
  /\ InRankOrder([i \in 1..Len(ranked) |-> ranked[i].id],
                 [i \in 1..Len(ranked) |-> ranked[i].score])
  /\ Len(reqResult) <= 5
  /\ InRankOrder([i \in 1..Len(reqResult) |-> reqResult[i].id],
                 [i \in 1..Len(reqResult) |-> reqResult[i].matchScore])

\* C11 witness: a resume request over more than 5 profiles returned 5
\* recommendations, among them two of equal score and two of different score.
C11_Witness ==
  /\ reqState = "Returned" /\ reqMode = "resume"
  /\ Cardinality(RankProfiles) > 5
  /\ Len(reqResult) = 5
  /\ \E i \in 1..4 : reqResult[i].matchScore > reqResult[i + 1].matchScore
  /\ \E i \in 1..4 :
       /\ reqResult[i].matchScore = reqResult[i + 1].matchScore
       /\ reqResult[i].id < reqResult[i + 1].id

\* The generative call of a candidate errored, timed out or returned
\* malformed output.
generationFailed(outcome) ==
  \/ outcome.kind # "output"
  \/ outcome.reasonSummary = <<>>
  \/ outcome.collaborationSuggestions = <<>>

hasNarrative(x) ==
  x.reasonSummary # <<>> /\ Len(x.collaborationSuggestions) >= 1

\* Every completed explanation and every recommendation of the response has a
\* summary and a suggestion.
ExplanationsComplete ==
  /\ \A i \in 1..Len(explained) : explained[i] # Pending => hasNarrative(explained[i])
  /\ \A i \in 1..Len(reqResult) : hasNarrative(reqResult[i])

\* A failed generative call produces the template of the candidate's overlap
\* facts.
FailedGenerationUsesTemplate ==
  \A i \in 1..Len(explained), outcome \in GenOutcomes :
    (Explain(i, outcome) /\ generationFailed(outcome))
      => /\ explained'[i] = templateFor(ranked[i].id)
         /\ hasNarrative(explained'[i])

\* C12: explanation fails soft: when the generative call of a candidate
\* errors, times out or returns malformed output, its result still has a
\* non-empty reasonSummary and at least one collaboration suggestion, built
\* from the structural overlap facts.
C12_ExplanationFailsSoft ==
  []ExplanationsComplete /\ [][FailedGenerationUsesTemplate]_vars

\* C12 witness: a returned response holds a templated recommendation next to a
\* generated one.
C12_Witness ==
  /\ reqState = "Returned"
  /\ \E i, j \in 1..Len(reqResult) :
       /\ explained[i].via = "template" /\ hasNarrative(reqResult[i])
       /\ reqResult[i].reasonSummary = templateFor(reqResult[i].id).reasonSummary
       /\ explained[j].via = "generated"

RequestTransitions ==
  { <<"Received", "Classified">>, <<"Classified", "Ranked">>,
    <<"Classified", "Failed">>, <<"Ranked", "Explained">>,
    <<"Explained", "Returned">> }

RequestStep ==
  reqState' # reqState => <<reqState, reqState'>> \in RequestTransitions

\* C13: a request moves through Received, Classified, Ranked, Explained in
\* that order without skipping a state, ends in Returned or in Failed, and
\* never leaves a terminal state.
C13_RequestStateMachine ==
  /\ [][RequestStep]_vars
  /\ <>(reqState \in {"Returned", "Failed"})
  /\ [](reqState = "Returned" => [](reqState = "Returned"))
  /\ [](reqState = "Failed" => [](reqState = "Failed"))

\* C13 witness: a request that went through explanation has been returned.
C13_Witness ==
  /\ reqState = "Returned"
  /\ Len(ranked) > 0
  /\ \A i \in 1..Len(explained) : explained[i] # Pending

\* The returned recommendations are the ranked candidates, position by
\* position; a failed request never reached the explanation step.
ReturnedIsRankedList ==
  /\ reqState = "Returned"
       => /\ Len(reqResult) = Len(ranked)
          /\ \A i \in 1..Len(ranked) :
               /\ reqResult[i].id = ranked[i].id
               /\ reqResult[i].matchScore = ranked[i].score
  /\ reqState = "Failed" => explained = <<>>

someExplanationFailed ==
  \E i \in 1..Len(explained) : explained[i].via = "template"

\* C14: a failed explanation of a candidate never fails the request: the
\* request reaches Returned with the full ranked list, each candidate in its
\* ranked position.
C14_ExplanationFailureKeepsList ==
  /\ []ReturnedIsRankedList
  /\ [](someExplanationFailed => reqState # "Failed")
  /\ (someExplanationFailed ~> reqState = "Returned")

\* C14 witness: a returned list of several candidates with a failed
\* explanation before the last position.
C14_Witness ==
  /\ reqState = "Returned"
  /\ Len(reqResult) >= 2
  /\ Len(reqResult) = Len(ranked)
  /\ \E i \in 1..(Len(explained) - 1) :
       explained[i].via = "template" /\ reqResult[i].id = ranked[i].id

\* C15: in resume mode, when the embedding provider has failed on its last
\* attempt, the request is Failed with a provider error and holds no ranked
\* list and no recommendations.
C15_EmbeddingFailureIsFatal ==
  (reqMode = "resume" /\ reqState # "Received" /\ embedAttempts = MaxEmbedAttempts)
    => /\ reqState = "Failed"
       /\ reqError = "ProviderError"
       /\ ranked = <<>>
       /\ reqResult = <<>>

\* C15 witness: a resume request failed after the last attempt.
C15_Witness ==
  /\ reqMode = "resume"
  /\ embedAttempts = MaxEmbedAttempts
  /\ reqState = "Failed"
  /\ reqError = "ProviderError"

\* ------------------------------------------------------------------------
\* Properties of Read More and the profile modal (SpecDetails)
\* ------------------------------------------------------------------------
hasDetails(employee) ==
  employee.resumeMatch /\ employee.collaborationSuggestions # <<>>

ReadMoreFetchesWhenLacking ==
  \A i \in 1..Len(recommendations) :
    HandleReadMore(i)
      => /\ inflight' = inflight /\ nextId' = nextId
         /\ IF currentQuery # <<>> /\ ~hasDetails(recommendations[i])
            THEN /\ Cardinality(detailsInflight' \ detailsInflight) = 1
                 /\ \A d \in detailsInflight' \ detailsInflight :
                      /\ d.employeeId = recommendations[i].id
                      /\ d.targetText = currentQuery
            ELSE detailsInflight' = detailsInflight

\* A response with a resumeMatch and suggestions leaves the recommendation
\* with both.
FullDetailsAreStored ==
  \A d \in detailsInflight, details \in DetailResults :
    (DetailsOk(d, details) /\ hasDetails(details))
      => \A i \in 1..Len(recommendations') :
           recommendations'[i].id = d.employeeId => hasDetails(recommendations'[i])

C17_EscapeOnlyWhileOpen ==
  /\ ModalShown => escListeners >= 1
  /\ ~isModalOpen => escListeners = 0

closesOnce ==
  isModalOpen' = FALSE /\ clearTimers' = clearTimers + 1

\* C18: a click on the backdrop invokes onClose; a click inside the content
\* panel, other than on a Close button, does not.
C18_BackdropClosesPanelDoesNot ==
  [][ /\ Click("backdrop") => closesOnce
      /\ \A target \in {"panel", "messageButton", "connectButton"} :
           Click(target) => UNCHANGED <<isModalOpen, clearTimers, selectedEmployee>>
    ]_vars

\* C18 witness: the modal was opened once and a click on the backdrop has
\* just closed it.
C18_Witness ==
  /\ lastClick = "backdrop"
  /\ Mounted(selectedEmployee) /\ ~isModalOpen
  /\ clearTimers = 1

\* ------------------------------------------------------------------------
\* Properties of a rejected or failed submit (Spec)
\* ------------------------------------------------------------------------
\* C19: when the text extraction of a submit fails, the error message is
\* set, no recommend request is sent, and the typed text and the selected
\* file are unchanged.
C19_ExtractionFailureKeepsInputs ==
  [][ \A p \in pending :
        ExtractionFailed(p)
          => /\ uploaderError' = ErrProcess
             /\ isLoading' = FALSE
             /\ inflight' = inflight /\ nextId' = nextId
             /\ inputText' = inputText /\ selectedFile' = selectedFile
    ]_vars

\* C19 witness: the first submit failed at the extraction; text and document
\* are still there and no request was ever sent.
C19_Witness ==
  /\ uploaderError = ErrProcess
  /\ ~isLoading /\ pending = {}
  /\ selectedFile.type \in ExtractedTypes
  /\ trim(inputText) # <<>>
  /\ nextId = 0 /\ inflight = {}

\* C20: a submit with blank text and no file sets the error message, sends
\* nothing, and leaves isLoading, inputText and selectedFile unchanged.
C20_BlankSubmitRejected ==
  [][ HandleSubmitEmpty
        => /\ uploaderError' = ErrEmpty
           /\ isLoading' = isLoading
           /\ inputText' = inputText /\ selectedFile' = selectedFile
           /\ inflight' = inflight /\ nextId' = nextId
    ]_vars

\* C20 witness: whitespace was typed and submitted.
C20_Witness ==
  /\ uploaderError = ErrEmpty
  /\ inputText # <<>> /\ trim(inputText) = <<>>
  /\ selectedFile = NoFile
  /\ ~isLoading
  /\ nextId = 0 /\ inflight = {}

\* ------------------------------------------------------------------------
\* Properties of failed requests and of the merge of match details
\* ------------------------------------------------------------------------
\* C21: a failed recommend request sets the error message and leaves the
\* recommendations list exactly as it was.
C21_FailedRequestKeepsList ==
  [][ \A r \in inflight :
        RecommendFailed(r)
          => error' = ErrFetch /\ recommendations' = recommendations
    ]_vars

\* C21 witness: the first request was answered, the second one failed, and
\* the list of the first is still there next to the error message.
C21_Witness ==
  /\ error = ErrFetch
  /\ recommendations # <<>>
  /\ shownFor = 1 /\ nextId = 2 /\ inflight = {}

\* C22: a failed match-details request leaves the modal open and
\* recommendations, selectedEmployee and the page-level error unchanged.
C22_FailedDetailsChangeNothing ==
  [][ \A d \in detailsInflight :
        DetailsFailed(d)
          => UNCHANGED <<isModalOpen, selectedEmployee, recommendations, error>>
    ]_vars

\* C22 witness: the only match-details request has failed; the modal is open
\* on the employee, who is still without a resumeMatch.
C22_Witness ==
  /\ nextDetailId = 1 /\ detailsInflight = {}
  /\ isModalOpen /\ clearTimers = 0
  /\ selectedEmployee.id = "emp002" /\ ~selectedEmployee.resumeMatch
  /\ \A i \in 1..Len(recommendations) :
       recommendations[i].id = "emp002" => ~recommendations[i].resumeMatch
  /\ error = ErrNone

\* C23: applying a match-details response for an employee changes only the
\* resumeMatch and collaborationSuggestions of the recommendations with that
\* id; the other recommendations, the length and the order are unchanged.
C23_MergeChangesOnlyTarget ==
  [][ \A d \in detailsInflight, details \in DetailResults :
        DetailsOk(d, details)
          => /\ Len(recommendations') = Len(recommendations)
             /\ \A i \in 1..Len(recommendations) :
                  /\ recommendations'[i].id = recommendations[i].id
                  /\ recommendations[i].id # d.employeeId
                       => recommendations'[i] = recommendations[i]
                  /\ recommendations[i].id = d.employeeId
                       => /\ recommendations'[i].resumeMatch = details.resumeMatch
                          /\ recommendations'[i].collaborationSuggestions
                               = details.collaborationSuggestions
    ]_vars

\* C23 witness: in a list of two, the response for the second employee has
\* been applied and the first is as the recommend response delivered it.
C23_Witness ==
  /\ selectedAtResponse # "none"
  /\ Len(recommendations) = 2
  /\ recommendations[1] = Emp("emp001", TRUE, Idea)
  /\ recommendations[2].id = "emp002" /\ recommendations[2].resumeMatch
  /\ nextDetailId = 1 /\ detailsInflight = {}

\* C24 (as claimed): a response for an employee changes selectedEmployee only
\* if that employee is selected, and not once the modal has been closed.
C24_ClosedOrOtherKeepsSelected ==
  [][ \A d \in detailsInflight, details \in DetailResults :
        DetailsOk(d, details)
          => /\ selectedEmployee.id # d.employeeId
                  => selectedEmployee' = selectedEmployee
             /\ ~isModalOpen => selectedEmployee' = selectedEmployee
    ]_vars

\* C24 (amended): a response for an employee is merged into selectedEmployee
\* exactly when selectedEmployee holds that employee, open or closed; it
\* never changes the id of selectedEmployee and leaves a cleared or another
\* selection as it is.
C24_MergedOnlyIntoSameEmployee ==
  [][ \A d \in detailsInflight, details \in DetailResults :
        DetailsOk(d, details)
          => /\ selectedEmployee'.id = selectedEmployee.id
             /\ selectedEmployee.id # d.employeeId
                  => selectedEmployee' = selectedEmployee
             /\ selectedEmployee.id = d.employeeId
                  => /\ selectedEmployee'.resumeMatch = details.resumeMatch
                     /\ selectedEmployee'.collaborationSuggestions
                          = details.collaborationSuggestions
    ]_vars

\* C24 witness: the response for the second employee was applied while the
\* first was selected; the first is shown as it was.
C24_Witness ==
  /\ selectedAtResponse = "emp001"
  /\ isModalOpen
  /\ selectedEmployee = Emp("emp001", TRUE, Idea)
  /\ \E i \in 1..Len(recommendations) :
       recommendations[i].id = "emp002" /\ recommendations[i].resumeMatch

\* C25: every completion of a recommend request resets the fetching
\* indicator, so with no request outstanding isFetching is false.
C25_FetchingIsReset ==
  /\ [](inflight = {} => ~isFetching)
  /\ [][ \A r \in inflight, list \in ResultLists :
           (RecommendOk(r, list) \/ RecommendFailed(r)) => ~isFetching'
       ]_vars

\* C25 witness: two requests have completed, one of them by failing, and the
\* indicator is off.
C25_Witness ==
  /\ nextId = 2 /\ inflight = {}
  /\ shownFor >= 1 /\ error = ErrFetch
  /\ ~isFetching

\* The text of a request holds the content of an attached file.
hasAttachment(r) == includes(queryText(r), AttachedFilePrefix)

\* C26: a submit with a file attached resolves mode resume whatever the typed
\* text is.
C26_FileMeansResume ==
  \A r \in inflight : hasAttachment(r) => r.payload.mode = "resume"

\* C26 witness: a request with an attachment and a trigger phrase in the
\* typed text was sent as resume.
C26_Witness ==
  \E r \in inflight :
    /\ hasAttachment(r)
    /\ HasTrigger(queryText(r))
    /\ r.payload.mode = "resume"

\* C27 (as claimed): isFetching is true whenever a recommend request is in
\* flight.
C27_FetchingWhileInFlight ==
  inflight # {} => isFetching

\* C28 (as claimed): the match details merged into a displayed
\* recommendation were requested for the query that produced the displayed
\* list.
C28_DetailsOfDisplayedQuery ==
  [][ \A d \in detailsInflight, details \in DetailResults :
        (DetailsOk(d, details)
           /\ \E i \in 1..Len(recommendations) : recommendations[i].id = d.employeeId)
          => d.targetText = shownQuery
    ]_vars

\* C29 (as claimed): the targetText of a match-details request is the text of
\* the query whose response produced the displayed recommendations.
C29_TargetTextIsDisplayedQuery ==
  [][ \A i \in 1..Len(recommendations) :
        HandleReadMore(i)
          => \A d \in detailsSent' \ detailsSent : d.targetText = shownQuery
    ]_vars

\* C30 (as claimed): isModalOpen implies that selectedEmployee is not null.
C30_OpenModalHasEmployee ==
  isModalOpen => Mounted(selectedEmployee)

====
